---- MODULE Spec2Model ----
(***************************************************************************)
(* SQLMasker (services/sql_masker.py): the security-predicate masking      *)
(* engine.                                                                 *)
(*                                                                         *)
(* Text is a sequence of lexemes.  A lexeme is a maximal run of word       *)
(* characters [A-Za-z0-9_] (a word), one whitespace character, one         *)
(* punctuation character, or one line of the placeholder comment.  Two     *)
(* words are therefore never adjacent in a text, and a regular expression  *)
(* of the source is computed on lexemes:                                   *)
(*   \b      holds at both ends of every word and nowhere else;            *)
(*   \s      is one whitespace lexeme;                                     *)
(*   a literal made of word characters lies inside one word.               *)
(* What a regular expression reads inside a word (its letters, whatever    *)
(* their case) is given by the tables Lower, KeywordAt and Digits.         *)
(***************************************************************************)
EXTENDS Integers, Sequences, FiniteSets, TLC

\* ------------------------------------------------------------- lexemes

\* \s of the regular expressions: a space, a line break.
Space == {" ", "\n"}

Punct == {"(", ")", "=", ">", "'", "$", "*", ";", ","}

\* The two lines of the placeholder; sqlparse lexes each as one comment.
CommentLine == {"-- SQL query generated and executed successfully",
                "-- (Security filters applied automatically)"}

IsSpace(t) == t \in Space

IsWord(t) == t \notin Space /\ t \notin Punct /\ t \notin CommentLine

\* str.lower() and re.IGNORECASE: the lower-case form of a lexeme.
Lower(t) ==
    CASE t = "SELECT" -> "select"
      [] t = "FROM" -> "from"
      [] t = "WHERE" -> "where"
      [] t = "Where" -> "where"
      [] t = "AND" -> "and"
      [] t = "OR" -> "or"
      [] t = "IN" -> "in"
      [] t = "GROUP" -> "group"
      [] t = "ORDER" -> "order"
      [] t = "BY" -> "by"
      [] t = "HAVING" -> "having"
      [] t = "LIMIT" -> "limit"
      [] t = "OFFSET" -> "offset"
      [] t = "Q4" -> "q4"
      [] t = "GETVARIABLE" -> "getvariable"
      [] t = "ARRAY_CONTAINS" -> "array_contains"
      [] t = "PARSE_JSON" -> "parse_json"
      [] t = "ACCESSIBLE_REGIONS" -> "accessible_regions"
      [] t = "REGION_ID" -> "region_id"
      [] t = "v_Current_User_Id2" -> "v_current_user_id2"
      [] t = "Customer_Name" -> "customer_name"
      [] t = "Sales_Data" -> "sales_data"
      [] OTHER -> t

\* Where each literal of the classifier occurs in a lower-case word:
\* as the whole word, or strictly inside it.
KeywordAt(w) ==
    CASE w = "getvariable" -> {<<"getvariable", "whole">>}
      [] w = "get_user_regions" -> {<<"get_user_regions", "whole">>}
      [] w = "accessible_regions" -> {<<"accessible_regions", "whole">>}
      [] w = "current_user_id" -> {<<"current_user_id", "whole">>}
      [] w = "v_current_user_id2" -> {<<"current_user_id", "inside">>}
      [] w = "array_contains" -> {<<"array_contains", "whole">>}
      [] w = "parse_json" -> {<<"parse_json", "whole">>}
      [] w = "region_id" -> {<<"region_id", "whole">>}
      [] OTHER -> {}

\* `kw in t.lower()`, for a literal kw of word characters.
Contains(kw, t) == \E p \in {"whole", "inside"} : <<kw, p>> \in KeywordAt(Lower(t))

\* t.lower() ends with kw / t.lower() == kw.
EndsWith(kw, t) == <<kw, "whole">> \in KeywordAt(Lower(t))

\* The words that start with a digit (\d).
Digits == {"1", "2", "5", "100000"}

StartsWithDigit(t) == t \in Digits

\* [a-zA-Z_][a-zA-Z0-9_]* matches at the start of t.
StartsWithLetter(t) == IsWord(t) /\ t \notin Digits

\* ------------------------------------------------------ text helpers

\* s[a:b] of Python, on the 1-based positions a..b-1.
Slice(s, a, b) == SubSeq(s, a, b - 1)

\* Python's `x in s` for a non-empty text x that starts and ends at lexeme bounds.
IsInfix(x, s) ==
    \E i \in 1..(Len(s) - Len(x) + 1) : SubSeq(s, i, i + Len(x) - 1) = x

\* \s* from position i: the position after the run of whitespace.
RECURSIVE SkipSpace(_, _)
SkipSpace(s, i) ==
    IF i <= Len(s) /\ IsSpace(s[i]) THEN SkipSpace(s, i + 1) ELSE i

\* The first position >= i of a lexeme in set T, or 0.
RECURSIVE FirstIn(_, _, _)
FirstIn(s, i, T) ==
    IF i > Len(s) THEN 0
    ELSE IF s[i] \in T THEN i
    ELSE FirstIn(s, i + 1, T)

\* str.strip().
RECURSIVE LStrip(_)
LStrip(s) == IF s # <<>> /\ IsSpace(Head(s)) THEN LStrip(Tail(s)) ELSE s

RECURSIVE RStrip(_)
RStrip(s) ==
    IF s # <<>> /\ IsSpace(s[Len(s)]) THEN RStrip(SubSeq(s, 1, Len(s) - 1)) ELSE s

Strip(s) == RStrip(LStrip(s))

\* ------------------------------------------------- _is_security_predicate

\* \([^)]+\) at position i: the position after it, or 0.
ParenArgEnd(s, i) ==
    IF i <= Len(s) /\ s[i] = "("
    THEN LET j == FirstIn(s, i + 1, {")"})
         IN  IF j >= i + 2 THEN j + 1 ELSE 0
    ELSE 0

\* region_id\s*(?:=|IN)\s*(?:\d+|\([^)]+\))
MatchRegionId(s, i) ==
    /\ EndsWith("region_id", s[i])
    /\ LET j == SkipSpace(s, i + 1)
       IN  /\ j <= Len(s)
           /\ (s[j] = "=" \/ Lower(s[j]) = "in")
           /\ LET k == SkipSpace(s, j + 1)
              IN  /\ k <= Len(s)
                  /\ (StartsWithDigit(s[k]) \/ ParenArgEnd(s, k) # 0)

\* <name>\([^)]+\), for GETVARIABLE and ARRAY_CONTAINS
MatchCall(name, s, i) ==
    EndsWith(name, s[i]) /\ ParenArgEnd(s, i + 1) # 0

\* get_user_regions\(\)
MatchGetUserRegions(s, i) ==
    /\ EndsWith("get_user_regions", s[i])
    /\ i + 2 <= Len(s)
    /\ s[i + 1] = "("
    /\ s[i + 2] = ")"

\* PARSE_JSON\(\s*GETVARIABLE\([^)]+\)\)
MatchParseJson(s, i) ==
    /\ EndsWith("parse_json", s[i])
    /\ i + 1 <= Len(s)
    /\ s[i + 1] = "("
    /\ LET j == SkipSpace(s, i + 2)
       IN  /\ j <= Len(s)
           /\ Lower(s[j]) = "getvariable"
           /\ LET e == ParenArgEnd(s, j + 1)
              IN  e # 0 /\ e <= Len(s) /\ s[e] = ")"

\* \$[a-zA-Z_][a-zA-Z0-9_]*
MatchSigil(s, i) ==
    s[i] = "$" /\ i + 1 <= Len(s) /\ StartsWithLetter(s[i + 1])

\* self.security_patterns, in the order of the list: pattern n matches at i.
PatternMatchesAt(n, s, i) ==
    CASE n = 1 -> MatchRegionId(s, i)
      [] n = 2 -> MatchCall("getvariable", s, i)
      [] n = 3 -> MatchGetUserRegions(s, i)
      [] n = 4 -> Contains("accessible_regions", s[i])
      [] n = 5 -> Contains("current_user_id", s[i])
      [] n = 6 -> MatchCall("array_contains", s, i)
      [] n = 7 -> MatchParseJson(s, i)
      [] n = 8 -> MatchSigil(s, i)

security_patterns == 1..8

\* re.search(pattern, predicate, re.IGNORECASE)
PatternSearch(n, s) == \E i \in 1..Len(s) : PatternMatchesAt(n, s, i)

security_keywords ==
    {"getvariable", "get_user_regions", "accessible_regions",
     "current_user_id", "array_contains", "parse_json"}

\* keyword in predicate_lower
KeywordSearch(kw, s) == \E i \in 1..Len(s) : Contains(kw, s[i])

\* _is_security_predicate over the ruleset the instance holds when called.
IsSecurityWith(patterns, predicate) ==
    \/ \E n \in patterns : PatternSearch(n, predicate)
    \/ \E kw \in security_keywords : KeywordSearch(kw, predicate)

\* __init__: the one attribute of the instance.
SQLMasker == [security_patterns |-> security_patterns]

\* Mutant: the keyword heuristics (lines 81-93) are left out.
IsSecurityPatternsOnly(predicate) ==
    \E n \in security_patterns : PatternSearch(n, predicate)

\* Mutant: the pattern loop (lines 76-79) is left out.
IsSecurityKeywordsOnly(predicate) ==
    \E kw \in security_keywords : KeywordSearch(kw, predicate)

_is_security_predicate(predicate) ==
    \/ \E n \in security_patterns : PatternSearch(n, predicate)
    \/ \E kw \in security_keywords : KeywordSearch(kw, predicate)

\* ------------------------------------------------------------ sqlparse
\* sqlparse.parse and the Where group it builds, as the library lexes and
\* groups the text.  The two-word keywords are written with one space.

\* Inside a string literal '...': the quotes pair up from the left, and a
\* last quote without a partner opens nothing.
InLiteral(s, i) ==
    /\ s[i] # "'"
    /\ Cardinality({k \in 1..(i - 1) : s[k] = "'"}) % 2 = 1
    /\ \E k \in (i + 1)..Len(s) : s[k] = "'"

\* The parenthesis closing the one opened before position j at depth d, or 0.
RECURSIVE CloseOf(_, _, _)
CloseOf(s, j, d) ==
    IF j > Len(s) THEN 0
    ELSE IF InLiteral(s, j) THEN CloseOf(s, j + 1, d)
    ELSE IF s[j] = "(" THEN CloseOf(s, j + 1, d + 1)
    ELSE IF s[j] = ")" THEN (IF d = 1 THEN j ELSE CloseOf(s, j + 1, d - 1))
    ELSE CloseOf(s, j + 1, d)

\* Position i lies in a Parenthesis group (a matched pair encloses it).
Nested(s, i) ==
    \E o \in 1..(i - 1) :
        s[o] = "(" /\ ~InLiteral(s, o) /\ CloseOf(s, o + 1, 1) > i

\* A token of the statement's own token list.
TopLevel(s, i) == ~InLiteral(s, i) /\ ~Nested(s, i)

\* sql.Where.M_OPEN
OpensWhere(s, i) == Lower(s[i]) = "where" /\ TopLevel(s, i)

\* A two-word keyword (ORDER BY, GROUP BY) at position i.
TwoWordAt(first, s, i) ==
    /\ i + 2 <= Len(s)
    /\ Lower(s[i]) = first
    /\ s[i + 1] = " "
    /\ Lower(s[i + 2]) = "by"

\* sql.Where.M_CLOSE: ORDER BY, GROUP BY, LIMIT, UNION, UNION ALL, EXCEPT,
\* HAVING, RETURNING, INTO.  OFFSET is not among them.
ClosesWhere(s, i) ==
    /\ TopLevel(s, i)
    /\ \/ TwoWordAt("order", s, i)
       \/ TwoWordAt("group", s, i)
       \/ Lower(s[i]) \in {"limit", "union", "except", "having", "returning", "into"}

\* sqlparse.parse(sql_statement)[0] raises IndexError: parse returns no
\* statement for a text without any token other than whitespace.
ParseRaises(s) == \A i \in 1..Len(s) : IsSpace(s[i])

\* The first position >= i where P holds, or 0.
RECURSIVE FirstOpen(_, _)
FirstOpen(s, i) ==
    IF i > Len(s) THEN 0
    ELSE IF OpensWhere(s, i) THEN i
    ELSE FirstOpen(s, i + 1)

RECURSIVE FirstClose(_, _)
FirstClose(s, i) ==
    IF i > Len(s) THEN 0
    ELSE IF ClosesWhere(s, i) THEN i
    ELSE FirstClose(s, i + 1)

\* None
NoWhere == <<>>

\* _find_where_clause(parsed): str() of the statement's first Where token,
\* which runs from WHERE to the token before the closing keyword, or to the end.
_find_where_clause(s) ==
    LET w == FirstOpen(s, 1)
    IN  IF w = 0 THEN NoWhere
        ELSE LET e == FirstClose(s, w + 1)
             IN  IF e = 0 THEN Slice(s, w, Len(s) + 1) ELSE Slice(s, w, e)

\* -------------------------------------------- _extract_business_predicates

\* \s+(?:AND|OR)\s+ matches from position i: the position after the match, or 0.
SepEnd(s, i) ==
    IF IsSpace(s[i])
    THEN LET j == SkipSpace(s, i)
         IN  IF j + 1 <= Len(s) /\ Lower(s[j]) \in {"and", "or"} /\ IsSpace(s[j + 1])
             THEN SkipSpace(s, j + 1)
             ELSE 0
    ELSE 0

\* re.split: the fragment that begins at start, scanned up to position i.
RECURSIVE SplitFrom(_, _, _)
SplitFrom(s, start, i) ==
    IF i > Len(s) THEN <<Slice(s, start, Len(s) + 1)>>
    ELSE LET e == SepEnd(s, i)
         IN  IF e # 0
             THEN <<Slice(s, start, i)>> \o SplitFrom(s, e, e)
             ELSE SplitFrom(s, start, i + 1)

\* Mutant: the split leaves the connectives inside parentheses alone.
RECURSIVE SplitFromTopLevel(_, _, _)
SplitFromTopLevel(s, start, i) ==
    IF i > Len(s) THEN <<Slice(s, start, Len(s) + 1)>>
    ELSE LET e == IF SepEnd(s, i) # 0 /\ TopLevel(s, SkipSpace(s, i)) THEN SepEnd(s, i) ELSE 0
         IN  IF e # 0
             THEN <<Slice(s, start, i)>> \o SplitFromTopLevel(s, e, e)
             ELSE SplitFromTopLevel(s, start, i + 1)

SplitPredicatesTopLevel(where_text) == SplitFromTopLevel(where_text, 1, 1)

\* re.split(r'\s+(?:AND|OR)\s+', where_text, flags=re.IGNORECASE)
SplitPredicates(where_text) == SplitFrom(where_text, 1, 1)

RECURSIVE KeepBusiness(_)
KeepBusiness(predicates) ==
    IF predicates = <<>> THEN <<>>
    ELSE IF ~_is_security_predicate(Head(predicates))
         THEN <<Strip(Head(predicates))>> \o KeepBusiness(Tail(predicates))
         ELSE KeepBusiness(Tail(predicates))

_extract_business_predicates(where_clause) ==
    KeepBusiness(SplitPredicates(where_clause))

\* The same loop over the ruleset the instance holds when called.
RECURSIVE KeepBusinessWith(_, _)
KeepBusinessWith(patterns, predicates) ==
    IF predicates = <<>> THEN <<>>
    ELSE IF ~IsSecurityWith(patterns, Head(predicates))
         THEN <<Strip(Head(predicates))>> \o KeepBusinessWith(patterns, Tail(predicates))
         ELSE KeepBusinessWith(patterns, Tail(predicates))

\* ---------------------------------------- _reconstruct_sql_with_predicates

\* re.search(r'\bWHERE\b', original_sql, re.IGNORECASE): the match's position, or 0.
RECURSIVE WhereMatch(_, _)
WhereMatch(s, i) ==
    IF i > Len(s) THEN 0
    ELSE IF Lower(s[i]) = "where" THEN i
    ELSE WhereMatch(s, i + 1)

clause_endings == <<"ORDER BY", "GROUP BY", "HAVING", "LIMIT", "OFFSET">>

\* \b<ending>\b matches at position i.
EndingAt(ending, s, i) ==
    CASE ending = "ORDER BY" -> TwoWordAt("order", s, i)
      [] ending = "GROUP BY" -> TwoWordAt("group", s, i)
      [] ending = "HAVING" -> Lower(s[i]) = "having"
      [] ending = "LIMIT" -> Lower(s[i]) = "limit"
      [] ending = "OFFSET" -> Lower(s[i]) = "offset"

\* re.search(f'\\b{ending}\\b', original_sql[where_start:], re.IGNORECASE):
\* the match's position in original_sql, or 0.
RECURSIVE EndingSearch(_, _, _)
EndingSearch(ending, s, i) ==
    IF i > Len(s) THEN 0
    ELSE IF EndingAt(ending, s, i) THEN i
    ELSE EndingSearch(ending, s, i + 1)

\* The loop over clause_endings from its n-th entry: where_end is set at the
\* first entry of the list that matches anywhere, and the loop breaks.
RECURSIVE WhereEnd(_, _, _)
WhereEnd(s, where_start, n) ==
    IF n > Len(clause_endings) THEN Len(s) + 1
    ELSE LET m == EndingSearch(clause_endings[n], s, where_start)
         IN  IF m # 0 THEN m ELSE WhereEnd(s, where_start, n + 1)

\* re.sub(r'^\s*WHERE\s+', '', pred, flags=re.IGNORECASE)
StripWhere(pred) ==
    LET i == SkipSpace(pred, 1)
    IN  IF /\ i + 1 <= Len(pred)
           /\ Lower(pred[i]) = "where"
           /\ IsSpace(pred[i + 1])
        THEN Slice(pred, SkipSpace(pred, i + 1), Len(pred) + 1)
        ELSE pred

\* The loop that fills clean_predicates.
RECURSIVE CleanPredicates(_)
CleanPredicates(preds) ==
    IF preds = <<>> THEN <<>>
    ELSE LET pred == StripWhere(Head(preds))
         IN  IF Strip(pred) # <<>>
             THEN <<Strip(pred)>> \o CleanPredicates(Tail(preds))
             ELSE CleanPredicates(Tail(preds))

\* " AND ".join(clean_predicates)
RECURSIVE JoinAnd(_)
JoinAnd(preds) ==
    IF preds = <<>> THEN <<>>
    ELSE IF Len(preds) = 1 THEN Head(preds)
    ELSE Head(preds) \o <<" ", "AND", " ">> \o JoinAnd(Tail(preds))

\* The body of the try block (lines 100-136).
_reconstruct_sql_with_predicates(original_sql, business_predicates) ==
    LET where_match == WhereMatch(original_sql, 1)
    IN  IF where_match = 0 THEN original_sql
        ELSE LET where_end == WhereEnd(original_sql, where_match + 1, 1)
                 before_where == Slice(original_sql, 1, where_match)
                 after_where == Slice(original_sql, where_end, Len(original_sql) + 1)
                 clean_predicates == CleanPredicates(business_predicates)
             IN  IF clean_predicates # <<>>
                 THEN before_where \o <<"WHERE", " ">> \o JoinAnd(clean_predicates)
                          \o <<" ">> \o after_where
                 ELSE before_where \o after_where

\* ----------------------------------------------------- _remove_where_clause

\* The last character of t is a word character.
EndsInWordChar(t) ==
    IsWord(t) \/ t = "-- SQL query generated and executed successfully"

\* The lookahead (?=\b(?:ORDER BY|GROUP BY|HAVING|LIMIT|OFFSET|$)) holds at
\* position p (before lexeme p; Len(s) + 1 is the end of the text).  The one \b
\* stands before the whole alternation, the end of text included; $ is the end
\* of the text or the place before a line break that ends it.  No word of the
\* texts extends a clause keyword (LIMITED), so a keyword is a whole lexeme.
LookaheadAt(s, p) ==
    \/ /\ p <= Len(s)
       /\ \E n \in 1..Len(clause_endings) : EndingAt(clause_endings[n], s, p)
    \/ /\ p = Len(s) + 1
       /\ p > 1
       /\ EndsInWordChar(s[p - 1])
    \/ /\ p = Len(s)
       /\ s[p] = "\n"
       /\ p > 1
       /\ EndsInWordChar(s[p - 1])

\* .*? with re.DOTALL: the first position >= p where the lookahead holds, or 0.
RECURSIVE LazyEnd(_, _)
LazyEnd(s, p) ==
    IF p > Len(s) + 1 THEN 0
    ELSE IF LookaheadAt(s, p) THEN p
    ELSE LazyEnd(s, p + 1)

\* re.sub(pattern, '', sql_statement, flags=re.IGNORECASE | re.DOTALL) from
\* position i on: every match \bWHERE\b.*? is cut out, left to right.
RECURSIVE CutWhere(_, _)
CutWhere(s, i) ==
    IF i > Len(s) THEN <<>>
    ELSE LET e == IF Lower(s[i]) = "where" THEN LazyEnd(s, i + 1) ELSE 0
         IN  IF e # 0 THEN CutWhere(s, e)
             ELSE <<s[i]>> \o CutWhere(s, i + 1)

\* re.sub(r'\s+', ' ', cleaned)
RECURSIVE CollapseSpace(_)
CollapseSpace(s) ==
    IF s = <<>> THEN <<>>
    ELSE IF IsSpace(Head(s)) THEN <<" ">> \o CollapseSpace(LStrip(s))
    ELSE <<Head(s)>> \o CollapseSpace(Tail(s))

_remove_where_clause(sql_statement) ==
    Strip(CollapseSpace(CutWhere(sql_statement, 1)))

\* ------------------------------------------------ format_sql_for_display
\* sqlparse.format with the options of lines 157-163, as the library's
\* filters render a statement: keyword case, identifier case, then
\* re-indentation (which strips redundant whitespace first).

\* The words the lexer takes for keywords, in lower case.
SqlKeywords ==
    {"select", "from", "where", "group", "order", "by", "and", "or", "in",
     "having", "limit", "offset"}

IsKeyword(s, i) ==
    IsWord(s[i]) /\ ~InLiteral(s, i) /\ Lower(s[i]) \in SqlKeywords

\* A name: a word outside string literals that is neither keyword nor number.
IsIdentifier(s, i) ==
    /\ IsWord(s[i])
    /\ ~InLiteral(s, i)
    /\ Lower(s[i]) \notin SqlKeywords
    /\ StartsWithLetter(s[i])

\* str.upper() of a keyword.
Upper(t) ==
    CASE Lower(t) = "select" -> "SELECT"
      [] Lower(t) = "from" -> "FROM"
      [] Lower(t) = "where" -> "WHERE"
      [] Lower(t) = "group" -> "GROUP"
      [] Lower(t) = "order" -> "ORDER"
      [] Lower(t) = "by" -> "BY"
      [] Lower(t) = "and" -> "AND"
      [] Lower(t) = "or" -> "OR"
      [] Lower(t) = "in" -> "IN"
      [] Lower(t) = "having" -> "HAVING"
      [] Lower(t) = "limit" -> "LIMIT"
      [] Lower(t) = "offset" -> "OFFSET"
      [] OTHER -> t

\* keyword_case='upper'
KeywordCase(s) ==
    [i \in 1..Len(s) |-> IF IsKeyword(s, i) THEN Upper(s[i]) ELSE s[i]]

\* identifier_case='lower'
IdentifierCase(s) ==
    [i \in 1..Len(s) |-> IF IsIdentifier(s, i) THEN Lower(s[i]) ELSE s[i]]

\* The keywords before which the re-indentation breaks the line.
BreaksLine(s, i) ==
    /\ TopLevel(s, i)
    /\ \/ Lower(s[i]) \in {"from", "where", "having", "limit", "and", "or"}
       \/ TwoWordAt("group", s, i)
       \/ TwoWordAt("order", s, i)

\* The indentation of the new line: AND and OR stand two columns in.
IndentOf(t) == IF Lower(t) \in {"and", "or"} THEN <<" ", " ">> ELSE <<>>

\* The column under the first item of the select list.
ListOffset == <<" ", " ", " ", " ", " ", " ", " ">>

RECURSIVE BreakLines(_, _)
BreakLines(s, i) ==
    IF i > Len(s) THEN <<>>
    ELSE IF s[i] = " " /\ i + 1 <= Len(s) /\ BreaksLine(s, i + 1)
         THEN <<"\n">> \o IndentOf(s[i + 1]) \o BreakLines(s, i + 1)
    ELSE IF s[i] = "," /\ TopLevel(s, i)
         THEN <<",", "\n">> \o ListOffset \o BreakLines(s, SkipSpace(s, i + 1))
    ELSE <<s[i]>> \o BreakLines(s, i + 1)

\* reindent=True
Reindent(s) == BreakLines(Strip(CollapseSpace(s)), 1)

\* sqlparse.format(sql_statement, reindent=True, keyword_case='upper',
\*                 identifier_case='lower', strip_comments=False)
sqlparse_format(sql_statement) ==
    Reindent(IdentifierCase(KeywordCase(sql_statement)))

\* Mutant: the handler lets the exception through to the caller.
FormatExceptReraises(sql_statement) == [outcome |-> "raise", value |-> <<>>]

\* `except Exception: return sql_statement` (lines 165-166).
FormatExcept(sql_statement) == [outcome |-> "return", value |-> sql_statement]

\* ------------------------------------------------------------- inputs

\* The most predicates a WHERE clause of the checked statements holds.
MaxPreds == 2

SelectFrom == <<"SELECT", " ", "*", " ", "FROM", " ", "t">>

\* Predicates the classifier keeps: they end in a word character, in a quote.
BusinessAtoms ==
    {<<"revenue", " ", ">", " ", "100000">>,
     <<"quarter", " ", "=", " ", "'", "Q4", "'">>}

\* Predicates the classifier drops: a region test (ends in a parenthesis), a
\* context identifier inside a longer word in mixed case, a sigil, a call.
SecurityAtoms ==
    {<<"region_id", " ", "IN", " ", "(", "1", ",", "2", ")">>,
     <<"v_Current_User_Id2", " ", "=", " ", "1">>,
     <<"x", " ", "=", " ", "$", "uid">>,
     <<"x", " ", "=", " ", "GETVARIABLE", "(", "'", "uid", "'", ")">>}

\* The statement of test_malformed_sql_fallback: a WHERE clause that is an
\* unbalanced parenthesis.
MalformedStatement == SelectFrom \o <<" ", "WHERE", " ", "(">>

Atoms == BusinessAtoms \cup SecurityAtoms

\* The clauses after the WHERE body.
Tails ==
    {<< >>,
     <<<<"GROUP", " ", "BY", " ", "x">>>>,
     <<<<"ORDER", " ", "BY", " ", "y">>>>,
     <<<<"GROUP", " ", "BY", " ", "x">>, <<"ORDER", " ", "BY", " ", "y">>>>,
     <<<<"LIMIT", " ", "5">>>>,
     <<<<"OFFSET", " ", "2">>>>}

\* The whitespace between clauses: a space, or a line break and its indent.
Seps == {<<" ">>, <<"\n", " ">>}

\* How the statement ends.
Ends == {<< >>, <<";">>, <<"\n">>}

\* WHERE and the connective, in upper and lower case.
Connectives == {<<"WHERE", "AND">>, <<"WHERE", "OR">>, <<"where", "and">>}

PredLists == UNION {[1..n -> Atoms] : n \in 0..MaxPreds}

RECURSIVE JoinWith(_, _)
JoinWith(parts, sep) ==
    IF parts = <<>> THEN <<>>
    ELSE IF Len(parts) = 1 THEN Head(parts)
    ELSE Head(parts) \o sep \o JoinWith(Tail(parts), sep)

RECURSIVE Prefixed(_, _)
Prefixed(parts, sep) ==
    IF parts = <<>> THEN <<>>
    ELSE sep \o Head(parts) \o Prefixed(Tail(parts), sep)

Statement(preds, kw, tail, sep, end) ==
    SelectFrom
        \o (IF preds = <<>> THEN <<>>
            ELSE sep \o <<kw[1], " ">> \o JoinWith(preds, sep \o <<kw[2], " ">>))
        \o Prefixed(tail, sep)
        \o end

\* The statements mask_security_predicates is called with, the empty text and
\* a blank one among them.
\* Statements whose WHERE clause holds a connective inside parentheses, a
\* BETWEEN ... AND ..., or a connective with nothing after it.
SplitStatements ==
    {SelectFrom \o <<" ", "WHERE", " ", "(", "revenue", " ", ">", " ", "100000",
                     " ", "OR", " ", "x", " ", "=", " ", "$", "uid", ")",
                     " ", "AND", " ", "quarter", " ", "=", " ", "'", "Q4", "'">>,
     SelectFrom \o <<" ", "WHERE", " ", "(", "x", " ", "=", " ", "$", "uid",
                     " ", "and", " ", "revenue", " ", ">", " ", "100000", ")",
                     " ", "GROUP", " ", "BY", " ", "x">>,
     SelectFrom \o <<" ", "WHERE", " ", "revenue", " ", "BETWEEN", " ", "1",
                     " ", "AND", " ", "5">>,
     SelectFrom \o <<" ", "WHERE", " ", "revenue", " ", ">", " ", "100000",
                     " ", "AND", " ", "GROUP", " ", "BY", " ", "x">>,
     SelectFrom \o <<" ", "WHERE", " ", "x", " ", "=", " ", "$", "uid",
                     "\n", " ", "OR", " ", "GROUP", " ", "BY", " ", "x">>}

\* Statements in which the word WHERE occurs before the top-level WHERE
\* clause: inside a string literal, inside a parenthesized subquery.
LocatorStatements ==
    {<<"SELECT", " ", "'", "where", "'", " ", "FROM", " ", "t",
       " ", "WHERE", " ", "revenue", " ", ">", " ", "100000">>,
     <<"SELECT", " ", "'", "where", "'", " ", "FROM", " ", "t",
       " ", "WHERE", " ", "x", " ", "=", " ", "$", "uid">>,
     <<"SELECT", " ", "*", " ", "FROM", " ",
       "(", "SELECT", " ", "x", " ", "FROM", " ", "u", " ", "WHERE", " ", "x", " ", ">", " ", "1", ")",
       " ", "s", " ", "WHERE", " ", "revenue", " ", ">", " ", "100000",
       " ", "AND", " ", "x", " ", "=", " ", "$", "uid">>}

Statements ==
    {Statement(preds, kw, tail, sep, end) :
        preds \in PredLists, kw \in Connectives, tail \in Tails,
        sep \in Seps, end \in Ends}
    \cup {<<>>, <<" ">>, MalformedStatement}
    \cup SplitStatements
    \cup LocatorStatements

\* The fragments _is_security_predicate is called with: the predicates above
\* and those of test_is_security_predicate.
Fragments ==
    Atoms \cup
    {<<"(">>,
     <<"current_user_id", " ", "=", " ", "1">>,
     <<"ARRAY_CONTAINS", "(", "region_id", ",", " ", "get_user_regions", "(", ")", ")">>,
     <<"GETVARIABLE", "(", "'", "ACCESSIBLE_REGIONS", "'", ")">>,
     <<"$", "current_user_id">>,
     <<"product_category", " ", "=", " ", "'", "Software", "'">>,
     <<"REGION_ID", "=", "5">>,
     <<"region_id", " ", ">", " ", "5">>,
     <<"ARRAY_CONTAINS", "(", "tags", ",", " ", "'", "x", "'", ")">>,
     <<"PARSE_JSON", "(", "payload", ")", " ", "=", " ", "1">>,
     <<"PARSE_JSON", "(", "GETVARIABLE", "(", "'", "uid", "'", ")", ")">>,
     <<"x", " ", "IN", " ", "(", "SELECT", " ", "y", " ", "FROM", " ",
       "get_user_regions", "(", ")", ")">>}

\* -------------------------------------------------------------- state

VARIABLES
    pc,                   \* where the call stands
    sql_statement,        \* mask_security_predicates' argument
    predicate,            \* _is_security_predicate's argument
    where_clause,         \* str(where_clause), NoWhere for None
    business_predicates,  \* the list _extract_business_predicates returned
    result,               \* the value the call returned
    outcome,              \* "none" while it runs, then "return" or "raise"
    raised,               \* the step that raised an exception, or "none"
    self                  \* the SQLMasker instance: its attributes

vars == <<pc, sql_statement, predicate, where_clause, business_predicates,
          result, outcome, raised, self>>

\* The string of line 48.
Fallback ==
    <<"-- SQL query generated and executed successfully", "\n",
      "-- (Security filters applied automatically)">>

\* Mutant: the handler lets the exception through to the caller.
OuterExceptReraises == [outcome |-> "raise", value |-> <<>>]

\* `except Exception` of mask_security_predicates (lines 46-48).
OuterExcept == [outcome |-> "return", value |-> Fallback]

\* `except Exception` of _reconstruct_sql_with_predicates (lines 138-140).
InnerExcept(original_sql) ==
    [outcome |-> "return", value |-> _remove_where_clause(original_sql)]

Init ==
    /\ \/ /\ pc = "mask"
          /\ sql_statement \in Statements
          /\ predicate = <<>>
       \/ /\ pc = "classify"
          /\ sql_statement = <<>>
          /\ predicate \in Fragments
    /\ where_clause = NoWhere
    /\ business_predicates = <<>>
    /\ result = <<>>
    /\ outcome = "none"
    /\ raised = "none"
    /\ self = SQLMasker

Return(value) ==
    /\ pc' = "done"
    /\ result' = value
    /\ outcome' = "return"

Handle(handler, step) ==
    /\ pc' = "done"
    /\ result' = handler.value
    /\ outcome' = handler.outcome
    /\ raised' = step

\* parsed = sqlparse.parse(sql_statement)[0]
Parse ==
    /\ pc = "mask"
    /\ IF ParseRaises(sql_statement)
       THEN Handle(OuterExcept, "parse")
       ELSE pc' = "find" /\ UNCHANGED <<result, outcome, raised>>
    /\ UNCHANGED <<sql_statement, predicate, where_clause, business_predicates, self>>

\* Mutant: a statement without a WHERE clause is taken for a failure.
FindWhereFailsOnNone ==
    /\ pc = "find"
    /\ where_clause' = _find_where_clause(sql_statement)
    /\ IF where_clause' = NoWhere
       THEN Return(Fallback)
       ELSE pc' = "extract" /\ UNCHANGED <<result, outcome>>
    /\ UNCHANGED <<sql_statement, predicate, business_predicates, raised, self>>

\* where_clause = self._find_where_clause(parsed); if not where_clause: return
FindWhere ==
    /\ pc = "find"
    /\ where_clause' = _find_where_clause(sql_statement)
    /\ IF where_clause' = NoWhere
       THEN Return(sql_statement)
       ELSE pc' = "extract" /\ UNCHANGED <<result, outcome>>
    /\ UNCHANGED <<sql_statement, predicate, business_predicates, raised, self>>

\* business_predicates = self._extract_business_predicates(where_clause)
Extract ==
    /\ pc = "extract"
    /\ business_predicates' = _extract_business_predicates(where_clause)
    /\ pc' = "rebuild"
    /\ UNCHANGED <<sql_statement, predicate, where_clause, result, outcome, raised, self>>

\* if business_predicates: clean_sql = self._reconstruct_sql_with_predicates(...)
Reconstruct ==
    /\ pc = "rebuild"
    /\ business_predicates # <<>>
    /\ Return(_reconstruct_sql_with_predicates(sql_statement, business_predicates))
    /\ UNCHANGED <<sql_statement, predicate, where_clause, business_predicates, raised, self>>

\* else: clean_sql = self._remove_where_clause(sql_statement)
RemoveWhere ==
    /\ pc = "rebuild"
    /\ business_predicates = <<>>
    /\ Return(_remove_where_clause(sql_statement))
    /\ UNCHANGED <<sql_statement, predicate, where_clause, business_predicates, raised, self>>

\* A direct call of _is_security_predicate.
Classify ==
    /\ pc = "classify"
    /\ Return(_is_security_predicate(predicate))
    /\ UNCHANGED <<sql_statement, predicate, where_clause, business_predicates, raised, self>>

Next == Parse \/ FindWhere \/ Extract \/ Reconstruct \/ RemoveWhere \/ Classify

Spec == Init /\ [][Next]_vars

\* An exception (a MemoryError, say) raised by a step of the pipeline outside
\* _reconstruct_sql_with_predicates: the outer handler takes it.
RaiseInPipeline ==
    /\ \/ pc \in {"mask", "find", "extract"}
       \/ pc = "rebuild" /\ business_predicates = <<>>
    /\ Handle(OuterExcept, pc)
    /\ UNCHANGED <<sql_statement, predicate, where_clause, business_predicates, self>>

\* An exception raised in the try block of _reconstruct_sql_with_predicates:
\* its own handler takes it and returns _remove_where_clause(original_sql).
RaiseInReconstruct ==
    /\ pc = "rebuild"
    /\ business_predicates # <<>>
    /\ Handle(InnerExcept(sql_statement), "reconstruct")
    /\ UNCHANGED <<sql_statement, predicate, where_clause, business_predicates, self>>

\* An exception raised in that handler's _remove_where_clause: it leaves
\* _reconstruct_sql_with_predicates and the outer handler takes it.
RaiseInRecovery ==
    /\ pc = "rebuild"
    /\ business_predicates # <<>>
    /\ Handle(OuterExcept, "recovery")
    /\ UNCHANGED <<sql_statement, predicate, where_clause, business_predicates, self>>

NextFault == Next \/ RaiseInPipeline \/ RaiseInReconstruct \/ RaiseInRecovery

SpecFault == Init /\ [][NextFault]_vars

\* ------------------------------------------------- the display formatter
\* Calls of format_sql_for_display beside the calls of the masker.

\* The statements passed to format_sql_for_display: the unit test's, the
\* same with names in mixed case and uneven spacing, statements with a WHERE
\* clause and a string literal, the empty text.
FormatInputs ==
    {<<"select", " ", "customer_name", ",", "sum", "(", "revenue", ")", " ",
       "from", " ", "sales_data", " ", "group", " ", "by", " ", "customer_name">>,
     <<"select", " ", "Customer_Name", ",", " ", "sum", "(", "revenue", ")", " ", " ",
       "from", " ", "Sales_Data", "\n", "group", " ", "by", " ", "Customer_Name", " ">>,
     SelectFrom \o <<" ", "where", " ", "revenue", " ", ">", " ", "100000",
                     " ", "and", " ", "x", " ", "=", " ", "'", "Q4", "'",
                     " ", "order", " ", "by", " ", "y", " ", "limit", " ", "5">>,
     SelectFrom \o <<" ", "WHERE", " ", "revenue", " ", ">", " ", "100000">>,
     SelectFrom,
     <<>>}

InitFormat ==
    \/ Init
    \/ /\ pc = "format"
       /\ sql_statement \in FormatInputs
       /\ predicate = <<>>
       /\ where_clause = NoWhere
       /\ business_predicates = <<>>
       /\ result = <<>>
       /\ outcome = "none"
       /\ raised = "none"
       /\ self = SQLMasker

\* formatted = sqlparse.format(...); return formatted
Format ==
    /\ pc = "format"
    /\ pc' = "formatted"
    /\ result' = sqlparse_format(sql_statement)
    /\ outcome' = "return"
    /\ UNCHANGED <<sql_statement, predicate, where_clause, business_predicates, raised, self>>

\* An exception raised inside sqlparse.format: the handler takes it.
RaiseInFormat ==
    /\ pc = "format"
    /\ pc' = "formatted"
    /\ result' = FormatExcept(sql_statement).value
    /\ outcome' = FormatExcept(sql_statement).outcome
    /\ raised' = "format"
    /\ UNCHANGED <<sql_statement, predicate, where_clause, business_predicates, self>>

NextFormat == Next \/ Format \/ RaiseInFormat

SpecFormat == InitFormat /\ [][NextFormat]_vars

\* ------------------------------------------- one call, start to return

\* mask_security_predicates(sql_statement) as one function of its argument:
\* what a call returns when it runs alone on an instance as constructed and
\* no step raises other than sqlparse.parse(...)[0].
mask_security_predicates(sql) ==
    IF ParseRaises(sql) THEN Fallback
    ELSE LET where == _find_where_clause(sql)
         IN  IF where = NoWhere THEN sql
             ELSE LET business == _extract_business_predicates(where)
                  IN  IF business # <<>>
                      THEN _reconstruct_sql_with_predicates(sql, business)
                      ELSE _remove_where_clause(sql)

\* ------------------------------------ several callers, one instance
\* Threads that call the two methods on one shared SQLMasker.  Each of the
\* variables of a call (its arguments, its locals, its position) holds one
\* value per caller here; `self` is the one thing the callers share.  A step
\* is one line of mask_security_predicates, as in Spec; the steps of
\* different callers interleave in any order.

NumCallers == 2

Callers == 1..NumCallers

\* The statements and fragments the callers pass.
SharedStatements ==
    {SelectFrom \o <<" ", "WHERE", " ", "revenue", " ", ">", " ", "100000",
                     " ", "AND", " ", "region_id", " ", "IN", " ", "(", "1", ",", "2", ")">>,
     SelectFrom \o <<" ", "WHERE", " ", "revenue", " ", ">", " ", "100000",
                     " ", "AND", " ", "x", " ", "=", " ", "$", "uid">>,
     SelectFrom \o <<" ", "WHERE", " ", "region_id", " ", "IN", " ", "(", "1", ",", "2", ")">>,
     SelectFrom \o <<" ", "WHERE", " ", "x", " ", "=", " ", "$", "uid">>,
     SelectFrom \o <<" ", "GROUP", " ", "BY", " ", "x">>}

SharedFragments ==
    {<<"revenue", " ", ">", " ", "100000">>,
     <<"region_id", " ", "IN", " ", "(", "1", ",", "2", ")">>,
     <<"x", " ", "=", " ", "$", "uid">>}

InitShared ==
    /\ pc = [t \in Callers |-> "idle"]
    /\ sql_statement = [t \in Callers |-> <<>>]
    /\ predicate = [t \in Callers |-> <<>>]
    /\ where_clause = [t \in Callers |-> NoWhere]
    /\ business_predicates = [t \in Callers |-> <<>>]
    /\ result = [t \in Callers |-> <<>>]
    /\ outcome = [t \in Callers |-> "none"]
    /\ raised = [t \in Callers |-> "none"]
    /\ self = SQLMasker

\* Caller t enters a method: fresh locals, the given arguments.
Enter(t, label, sql, fragment) ==
    /\ pc[t] \in {"idle", "done"}
    /\ pc' = [pc EXCEPT ![t] = label]
    /\ sql_statement' = [sql_statement EXCEPT ![t] = sql]
    /\ predicate' = [predicate EXCEPT ![t] = fragment]
    /\ where_clause' = [where_clause EXCEPT ![t] = NoWhere]
    /\ business_predicates' = [business_predicates EXCEPT ![t] = <<>>]
    /\ result' = [result EXCEPT ![t] = <<>>]
    /\ outcome' = [outcome EXCEPT ![t] = "none"]
    /\ UNCHANGED <<raised, self>>

\* Caller t returns value from its call.
ReturnTo(t, value) ==
    /\ pc' = [pc EXCEPT ![t] = "done"]
    /\ result' = [result EXCEPT ![t] = value]
    /\ outcome' = [outcome EXCEPT ![t] = "return"]

\* masker.mask_security_predicates(sql), its first call or a later one.
CallMask(t) ==
    \E sql \in SharedStatements : Enter(t, "mask", sql, <<>>)

\* masker._is_security_predicate(fragment)
CallClassify(t) ==
    \E fragment \in SharedFragments : Enter(t, "classify", <<>>, fragment)

ParseOf(t) ==
    /\ pc[t] = "mask"
    /\ IF ParseRaises(sql_statement[t])
       THEN ReturnTo(t, OuterExcept.value)
       ELSE pc' = [pc EXCEPT ![t] = "find"] /\ UNCHANGED <<result, outcome>>
    /\ UNCHANGED <<sql_statement, predicate, where_clause, business_predicates, raised, self>>

FindWhereOf(t) ==
    /\ pc[t] = "find"
    /\ where_clause' = [where_clause EXCEPT ![t] = _find_where_clause(sql_statement[t])]
    /\ IF where_clause'[t] = NoWhere
       THEN ReturnTo(t, sql_statement[t])
       ELSE pc' = [pc EXCEPT ![t] = "extract"] /\ UNCHANGED <<result, outcome>>
    /\ UNCHANGED <<sql_statement, predicate, business_predicates, raised, self>>

\* Mutant: the list is kept on the instance, one slot for every caller,
\* instead of in a local of the call.
ExtractOfOnInstance(t) ==
    /\ pc[t] = "extract"
    /\ business_predicates' =
           [u \in Callers |->
               KeepBusinessWith(self.security_patterns, SplitPredicates(where_clause[t]))]
    /\ pc' = [pc EXCEPT ![t] = "rebuild"]
    /\ UNCHANGED <<sql_statement, predicate, where_clause, result, outcome, raised, self>>

\* The loop of _extract_business_predicates reads self.security_patterns
\* through _is_security_predicate and writes its local list only.
ExtractOf(t) ==
    /\ pc[t] = "extract"
    /\ business_predicates' =
           [business_predicates EXCEPT
               ![t] = KeepBusinessWith(self.security_patterns, SplitPredicates(where_clause[t]))]
    /\ pc' = [pc EXCEPT ![t] = "rebuild"]
    /\ UNCHANGED <<sql_statement, predicate, where_clause, result, outcome, raised, self>>

ReconstructOf(t) ==
    /\ pc[t] = "rebuild"
    /\ business_predicates[t] # <<>>
    /\ ReturnTo(t, _reconstruct_sql_with_predicates(sql_statement[t], business_predicates[t]))
    /\ UNCHANGED <<sql_statement, predicate, where_clause, business_predicates, raised, self>>

RemoveWhereOf(t) ==
    /\ pc[t] = "rebuild"
    /\ business_predicates[t] = <<>>
    /\ ReturnTo(t, _remove_where_clause(sql_statement[t]))
    /\ UNCHANGED <<sql_statement, predicate, where_clause, business_predicates, raised, self>>

ClassifyOf(t) ==
    /\ pc[t] = "classify"
    /\ ReturnTo(t, IsSecurityWith(self.security_patterns, predicate[t]))
    /\ UNCHANGED <<sql_statement, predicate, where_clause, business_predicates, raised, self>>

NextShared ==
    \/ \E t \in Callers : CallMask(t)
    \/ \E t \in Callers : CallClassify(t)
    \/ \E t \in Callers : ParseOf(t)
    \/ \E t \in Callers : FindWhereOf(t)
    \/ \E t \in Callers : ExtractOf(t)
    \/ \E t \in Callers : ReconstructOf(t)
    \/ \E t \in Callers : RemoveWhereOf(t)
    \/ \E t \in Callers : ClassifyOf(t)

SpecShared == InitShared /\ [][NextShared]_vars

\* -------------------------------------------------------------- claims

\* A finished call of mask_security_predicates in which no step raised.
Masked == pc = "done" /\ predicate = <<>> /\ raised = "none"

\* A finished call on a statement with a top-level WHERE clause.
MaskedWhere == Masked /\ where_clause # NoWhere

\* A finished direct call of _is_security_predicate.
Classified == pc = "done" /\ predicate # <<>>

\* The fragments of the statement's WHERE clause.
WhereFragments == SplitPredicates(where_clause)

\* A fragment's literal text: without the WHERE keyword and the whitespace around.
FragmentText(f) == Strip(StripWhere(Strip(f)))

\* The texts of the Business fragments, in source order.
BusinessTexts ==
    LET keep(f) == ~_is_security_predicate(f) /\ FragmentText(f) # <<>>
        picked == SelectSeq(WhereFragments, keep)
    IN  [k \in 1..Len(picked) |-> FragmentText(picked[k])]

\* The position of the tail clause that comes first after the WHERE keyword,
\* or the end of the text.
TailStart ==
    LET w == FirstOpen(sql_statement, 1)
        found == {EndingSearch(clause_endings[n], sql_statement, w + 1) :
                     n \in 1..Len(clause_endings)} \ {0}
    IN  IF found = {} THEN Len(sql_statement) + 1
        ELSE CHOOSE m \in found : \A k \in found : m <= k

\* The tail clauses of the statement.
TailText == Slice(sql_statement, TailStart, Len(sql_statement) + 1)

\* The text before the WHERE keyword.
BeforeText == Slice(sql_statement, 1, FirstOpen(sql_statement, 1))

IsSuffix(x, s) == Len(x) <= Len(s) /\ SubSeq(s, Len(s) - Len(x) + 1, Len(s)) = x

IsPrefix(x, s) == Len(x) <= Len(s) /\ SubSeq(s, 1, Len(x)) = x

HasWhereWord(s) == \E i \in 1..Len(s) : Lower(s[i]) = "where"

\* C1: the result of masking a statement with a top-level WHERE clause holds the
\* literal text of no fragment that _is_security_predicate classifies as Security.
C1_SecurityRemoval ==
    MaskedWhere =>
        \A k \in 1..Len(WhereFragments) :
            _is_security_predicate(WhereFragments[k])
                => ~IsInfix(FragmentText(WhereFragments[k]), result)

\* C2: when no Business fragment remains, the result holds neither the WHERE
\* keyword nor its body, and holds the tail clauses exactly as they were written.
C2_AllSecurityRemoval ==
    (MaskedWhere /\ business_predicates = <<>>) =>
        /\ ~HasWhereWord(result)
        /\ IsPrefix(Strip(BeforeText), result)
        /\ IsSuffix(Strip(TailText), result)

\* C3: when a Business fragment remains, the result is the text before WHERE,
\* 'WHERE ', the Business fragments' texts in source order joined by ' AND ', a
\* space, and then the rest; and when every fragment is Business, the rest is the
\* statement's tail, so nothing else is removed.
C3_BusinessPreservation ==
    (MaskedWhere /\ business_predicates # <<>>) =>
        LET head == BeforeText \o <<"WHERE", " ">> \o JoinAnd(BusinessTexts) \o <<" ">>
        IN  /\ IsPrefix(head, result)
            /\ (Len(BusinessTexts) = Len(WhereFragments)
                    => result = head \o TailText)

\* C4: in the reconstruction with retained predicates, everything from the tail
\* clause that comes first after WHERE is copied to the end of the result.
C4_TailPreserved ==
    (MaskedWhere /\ business_predicates # <<>>) => IsSuffix(TailText, result)

\* A finished call of mask_security_predicates, whether or not a step raised.
Finished == pc = "done" /\ predicate = <<>>

\* The text holds a token that is not whitespace.
NotBlank(s) == \E i \in 1..Len(s) : ~IsSpace(s[i])

\* C5 as stated: for every statement in which no WHERE keyword is found, the
\* result is the input unchanged, never the placeholder.
C5_NoWhereNoOp_Stated ==
    (Finished /\ ~HasWhereWord(sql_statement)) =>
        result = sql_statement /\ result # Fallback

\* C5 as amended: for every text that is not empty or blank (so that sqlparse
\* yields a statement) and in which no WHERE keyword is found, the call returns
\* the input unchanged, never the placeholder.
C5_NoWhereNoOp ==
    (Finished /\ NotBlank(sql_statement) /\ ~HasWhereWord(sql_statement)) =>
        /\ outcome = "return"
        /\ result = sql_statement
        /\ result # Fallback

C5_Witness ==
    /\ Finished
    /\ ~HasWhereWord(sql_statement)
    /\ IsInfix(<<"GROUP", " ", "BY">>, sql_statement)
    /\ result = sql_statement

\* C6: masking the statement whose WHERE clause is an unbalanced parenthesis
\* returns the placeholder.
C6_MalformedFallback ==
    (Finished /\ sql_statement = MalformedStatement) => result = Fallback

\* C7: whatever step raises, a finished call has returned a string to its
\* caller, and that string is the placeholder or one the reconstruction built
\* (the statement unchanged, rebuilt, or with its WHERE clause removed); a call
\* that has not finished has handed nothing to its caller and stands at a step
\* of the pipeline.
C7_FailureContainment ==
    /\ Finished =>
        /\ outcome = "return"
        /\ \/ result = Fallback
           \/ result = sql_statement
           \/ result = _reconstruct_sql_with_predicates(sql_statement, business_predicates)
           \/ result = _remove_where_clause(sql_statement)
    /\ (predicate = <<>> /\ pc # "done") =>
        outcome = "none" /\ pc \in {"mask", "find", "extract", "rebuild"}

C7_Witness ==
    /\ Finished
    /\ raised = "extract"
    /\ where_clause # NoWhere
    /\ outcome = "return"
    /\ result = Fallback

\* C8: when a step of the pipeline raised, the result is the placeholder.
C8_EveryFailureFallback ==
    (Finished /\ raised # "none") => result = Fallback

\* A security keyword occurs in the fragment, in any letter case.
HasKeyword(f) ==
    \E i \in 1..Len(f) : \E kw \in security_keywords : Contains(kw, f[i])

\* C9: _is_security_predicate returns Security for every fragment in which a
\* security keyword occurs; and each predicate the masker retains is the whole
\* trimmed text of one fragment in which no security keyword occurs.
C9_FailClosed ==
    /\ (Classified /\ HasKeyword(predicate)) => result = TRUE
    /\ (predicate = <<>> /\ pc \in {"rebuild", "done"} /\ where_clause # NoWhere) =>
        \A k \in 1..Len(business_predicates) :
            /\ ~HasKeyword(business_predicates[k])
            /\ \E j \in 1..Len(WhereFragments) :
                business_predicates[k] = Strip(WhereFragments[j])

C9_Witness ==
    /\ MaskedWhere
    /\ \E j \in 1..Len(WhereFragments) :
        \E i \in 1..Len(WhereFragments[j]) :
            <<"current_user_id", "inside">> \in KeywordAt(Lower(WhereFragments[j][i]))
    /\ business_predicates # <<>>
    /\ Len(business_predicates) < Len(WhereFragments)

\* The six shapes the specification lists: a region test, a session-variable
\* call, a get-accessible-scope call, a session-context identifier, an array
\* membership test combined with a JSON-session-parsing call, a sigil.
ListedShape(f) ==
    \/ PatternSearch(1, f)
    \/ PatternSearch(2, f)
    \/ PatternSearch(3, f)
    \/ PatternSearch(4, f)
    \/ PatternSearch(5, f)
    \/ PatternSearch(6, f) /\ PatternSearch(7, f)
    \/ PatternSearch(8, f)

\* One of these words occurs in the fragment, in any letter case.
HasCallWord(f) ==
    \E i \in 1..Len(f) :
        \E kw \in {"getvariable", "get_user_regions", "array_contains", "parse_json"} :
            Contains(kw, f[i])

\* C10 as stated: _is_security_predicate returns Security exactly for the
\* fragments of one of the six listed shapes.
C10_RuleSetExact_Stated ==
    Classified => (result = TRUE <=> ListedShape(predicate))

\* C10 as amended: _is_security_predicate returns Security exactly for the
\* fragments of one of the six listed shapes and for those in which one of the
\* words getvariable, get_user_regions, array_contains, parse_json occurs (an
\* array membership test alone, a JSON parsing call alone); every other fragment
\* is Business.
C10_RuleSetExact ==
    Classified => (result = TRUE <=> (ListedShape(predicate) \/ HasCallWord(predicate)))

C10_Witness ==
    /\ Classified
    /\ ~ListedShape(predicate)
    /\ HasCallWord(predicate)
    /\ result = TRUE

\* A caller whose call of mask_security_predicates has returned.
MaskedBy(t) == pc[t] = "done" /\ predicate[t] = <<>>

\* A caller whose call of _is_security_predicate has returned.
ClassifiedBy(t) == pc[t] = "done" /\ predicate[t] # <<>>

\* C11: on one shared instance, in every interleaving of the callers' steps,
\* a call that has returned has returned what the same call returns alone on
\* the same input, and self.security_patterns is as __init__ left it.
C11_NoInterference ==
    /\ self.security_patterns = security_patterns
    /\ \A t \in Callers :
          /\ MaskedBy(t) => result[t] = mask_security_predicates(sql_statement[t])
          /\ ClassifiedBy(t) => result[t] = _is_security_predicate(predicate[t])

\* One caller's call has returned a statement rebuilt from its business
\* predicate while another caller's call, on a statement whose predicates are
\* all security, stands between its extraction and its return.
C11_Witness ==
    /\ MaskedBy(1)
    /\ business_predicates[1] # <<>>
    /\ result[1] = mask_security_predicates(sql_statement[1])
    /\ pc[2] = "rebuild"
    /\ business_predicates[2] = <<>>
    /\ self.security_patterns = security_patterns

\* A finished call of format_sql_for_display.
Formatted == pc = "formatted"

\* Every keyword of the text is in upper case, every name in lower case.
CasesSet(s) ==
    \A i \in 1..Len(s) :
        /\ IsKeyword(s, i) => s[i] = Upper(s[i])
        /\ IsIdentifier(s, i) => s[i] = Lower(s[i])

\* Every clause keyword after the first word begins a line, and no line
\* ends in a space.
LinesSet(s) ==
    \A i \in 2..Len(s) :
        /\ BreaksLine(s, i) =>
              \/ s[i - 1] = "\n"
              \/ s[i - 1] = " " /\ Lower(s[i]) \in {"and", "or"}
        /\ s[i] = "\n" => s[i - 1] # " "

\* C12: format_sql_for_display always returns; when formatting succeeds the
\* result is the rendering of the input with keywords in upper case, names in
\* lower case and one clause per line, when formatting fails the result is
\* the input unchanged; a call of mask_security_predicates returns what its
\* own steps compute, the formatter having no part in it.
C12_FormatterContainment ==
    /\ Formatted =>
          /\ outcome = "return"
          /\ raised = "none" =>
                /\ result = sqlparse_format(sql_statement)
                /\ CasesSet(result)
                /\ LinesSet(result)
          /\ raised = "format" => result = sql_statement
    /\ pc = "format" => outcome = "none"
    /\ Masked => result = mask_security_predicates(sql_statement)

\* A statement in lower case with uneven spacing has been formatted, and the
\* rendering differs from it.
C12_Witness ==
    /\ Formatted
    /\ raised = "none"
    /\ ~CasesSet(sql_statement)
    /\ ~LinesSet(sql_statement)
    /\ result # sql_statement
    /\ CasesSet(result)

\* A connective of the WHERE text w with whitespace on both sides.
IsConnective(w, c) ==
    /\ 1 < c /\ c < Len(w)
    /\ Lower(w[c]) \in {"and", "or"}
    /\ IsSpace(w[c - 1])
    /\ IsSpace(w[c + 1])

\* Where the piece of w that begins at a ends: before the whitespace that
\* precedes the next connective of conn, or at the end of w.
PieceEnd(w, conn, a) ==
    LET later == {c \in conn : c >= a}
    IN  IF later = {} THEN Len(w)
        ELSE LET c == CHOOSE c \in later : \A d \in later : c <= d
             IN  CHOOSE b \in 0..(c - 1) :
                     /\ b = 0 \/ ~IsSpace(w[b])
                     /\ \A k \in (b + 1)..(c - 1) : IsSpace(w[k])

\* The pieces of w between neighbouring cuts, as pairs of positions: a piece
\* begins at the start of w or after the whitespace that follows a
\* connective, and ends where PieceEnd says.
Pieces(w) ==
    LET conn == {c \in 1..Len(w) : IsConnective(w, c)}
        starts == {1} \cup {SkipSpace(w, c + 1) : c \in conn}
    IN  {<<a, PieceEnd(w, conn, a)>> : a \in starts}

\* The pieces of w that the classifier takes for business.
BusinessPieces(w) ==
    {ab \in Pieces(w) : ~_is_security_predicate(SubSeq(w, ab[1], ab[2]))}

\* A call of mask_security_predicates that has just made its extraction.
Extracted == pc = "rebuild" /\ predicate = <<>> /\ where_clause # NoWhere

\* A joiner of the result with nothing but whitespace where its predicate
\* should stand.
EmptySlot(s, i) ==
    /\ s[i] \in {"WHERE", "AND"}
    /\ i + 1 <= Len(s)
    /\ s[i + 1] = " "
    /\ i + 2 > Len(s) \/ IsSpace(s[i + 2])

\* C13: _extract_business_predicates cuts the WHERE text at every AND and OR
\* that has whitespace on both sides, in any letter case and at any
\* parenthesis depth; the pieces are classified one by one, and the list
\* returned holds, trimmed, exactly the pieces that are not Security; no
\* piece that is empty shows in the statement rebuilt from the list.
C13_LexicalSplit ==
    /\ Extracted =>
          /\ \A k \in 1..Len(business_predicates) :
                /\ \A c \in 1..Len(business_predicates[k]) :
                      ~IsConnective(business_predicates[k], c)
                /\ business_predicates[k] = Strip(business_predicates[k])
          /\ LET kept == BusinessPieces(where_clause)
             IN  /\ {business_predicates[k] : k \in 1..Len(business_predicates)}
                       = {Strip(SubSeq(where_clause, ab[1], ab[2])) : ab \in kept}
                 /\ Len(business_predicates) = Cardinality(kept)
    /\ (MaskedWhere /\ business_predicates # <<>>) =>
          \A i \in 1..Len(result) : ~EmptySlot(result, i)

\* A finished call on a statement with a connective inside parentheses: the
\* parenthesized predicate was cut there, its Security piece dropped and its
\* business piece kept with the unmatched parenthesis.
C13_Witness ==
    /\ MaskedWhere
    /\ \E c \in 1..Len(where_clause) :
          IsConnective(where_clause, c) /\ Nested(where_clause, c)
    /\ Cardinality(Pieces(where_clause)) = 3
    /\ Len(business_predicates) = 2
    /\ \E k \in 1..2 : \E i \in 1..Len(business_predicates[k]) :
          business_predicates[k][i] = "("
    /\ \A k \in 1..2 : \A i \in 1..Len(business_predicates[k]) :
          business_predicates[k][i] # ")"

\* The text of statement x before its top-level WHERE clause, and after it.
BeforeWhere(x) == Slice(x, 1, FirstOpen(x, 1))

AfterWhere(x) == Slice(x, FirstOpen(x, 1) + Len(_find_where_clause(x)), Len(x) + 1)

\* A fragment of the WHERE text, a "?" in its place if it is Security.
Redacted(f) == IF _is_security_predicate(f) THEN <<"?">> ELSE f

\* The WHERE text w with each Security fragment redacted, the connectives
\* and the whitespace around them as they are.
RECURSIVE RedactFrom(_, _, _)
RedactFrom(w, start, i) ==
    IF i > Len(w) THEN Redacted(Slice(w, start, Len(w) + 1))
    ELSE LET e == SepEnd(w, i)
         IN  IF e # 0
             THEN Redacted(Slice(w, start, i)) \o Slice(w, i, e) \o RedactFrom(w, e, e)
             ELSE RedactFrom(w, start, i + 1)

\* Statements x and y differ in the text of Security fragments only.
SameButSecurity(x, y) ==
    /\ ~ParseRaises(x) /\ ~ParseRaises(y)
    /\ _find_where_clause(x) # NoWhere
    /\ _find_where_clause(y) # NoWhere
    /\ BeforeWhere(x) = BeforeWhere(y)
    /\ AfterWhere(x) = AfterWhere(y)
    /\ RedactFrom(_find_where_clause(x), 1, 1) = RedactFrom(_find_where_clause(y), 1, 1)

\* C14: two calls of mask_security_predicates on statements that differ in
\* the text of their Security fragments only return the same string.
C14_Noninterference ==
    \A t \in Callers : \A u \in Callers :
        (MaskedBy(t) /\ MaskedBy(u) /\ SameButSecurity(sql_statement[t], sql_statement[u]))
            => result[t] = result[u]

\* C15: masking a string that mask_security_predicates returned (a rebuilt
\* statement, a statement without its WHERE clause, an unchanged statement,
\* the placeholder) returns that string.
C15_Idempotent ==
    (pc = "done" /\ predicate = <<>>) => mask_security_predicates(result) = result

\* C16: the span the reconstruction replaces (from the first match of the
\* word WHERE to the tail boundary it finds) is the span of the top-level
\* WHERE clause whose fragments were classified, and the text before and
\* after that clause is in the result unchanged; the removal starts at the
\* same WHERE as well.
C16_LocatorAgreement ==
    MaskedWhere =>
        /\ WhereMatch(sql_statement, 1) = FirstOpen(sql_statement, 1)
        /\ business_predicates # <<>> =>
              /\ WhereEnd(sql_statement, WhereMatch(sql_statement, 1) + 1, 1)
                    = FirstOpen(sql_statement, 1) + Len(where_clause)
              /\ IsPrefix(BeforeText, result)
              /\ IsSuffix(AfterWhere(sql_statement), result)

====
